---- MODULE Spec2Model ----
(***************************************************************************)
(* Telegram web-auth handshake and daily quota of the AI chat platform.     *)
(*                                                                         *)
(* The repository holds two revisions of the same server:                  *)
(*   src/index.js          ("index")                                       *)
(*   src/unnamed/part_000  ("part", the BotHost edition)                   *)
(* Both keep a Map authRequests from one-time codes to {resolve,           *)
(* timestamp}, fill it in POST /api/auth/init, long-poll it in             *)
(* GET /api/auth/status/:code and resolve it from the bot's /start         *)
(* handler.  The variable `variant` selects the revision; every handler    *)
(* is one action per revision, translated from that revision's code.       *)
(*                                                                         *)
(* Node runs one handler at a time: a handler is atomic up to its first    *)
(* await on I/O, and promise continuations (the code after                 *)
(* `await Promise.race(...)`) run as microtasks before the next event-loop *)
(* task.  So the continuation of a poll whose race settles is part of the  *)
(* action that settled it.                                                 *)
(*                                                                         *)
(* Time is in milliseconds and advances in steps of POLL_WAIT.  Events     *)
(* that fall on the same instant interleave in every order, except that    *)
(* timers of equal duration fire in the order they were set.               *)
(*                                                                         *)
(* Spec is the handshake; SpecLedger is the quota bookkeeping of the       *)
(* send-message endpoint behind the auth middleware, with a clock that     *)
(* advances by days.  Both share the users table and the token format.     *)
(* FairSpec is Spec with the event loop's fairness; SpecPair is the         *)
(* handshake with two codes in the registry; SpecOwner is the chat          *)
(* endpoints with two users; SpecAI is AIService.generate of index.js.      *)
(***************************************************************************)
EXTENDS Integers, Sequences, FiniteSets, TLC

\* ----------------------------------------------------------------- bounds
MaxCodes  == 1      \* codes POST /api/auth/init hands out
MaxPolls  == 3      \* GET /api/auth/status requests
MaxTicks  == 11     \* the clock stops after MaxTicks steps of POLL_WAIT
MaxSignIns == 1     \* confirmations that sign a token, in the ledger's specification
MaxChats  == 1      \* rows of table chats
MaxSends  == 3      \* POST /api/chat/:id/message requests
MaxDays   == 8      \* the ledger's clock stops after MaxDays days
DailyLimit == 2     \* users.daily_limit (the schema's default is 100)
MaxRuns   == 2      \* calls of AIService.generate from route handlers
MaxPairPolls == 2   \* status requests in the specification with two codes
MaxLists  == 2      \* GET /api/chat/:id/messages requests

TelegramIds == {"U1", "U2"}

\* ------------------------------------------------------ program constants
AUTH_TTL  == 300000        \* setTimeout(() => authRequests.delete(code), ...)
POLL_WAIT == 30000         \* setTimeout(() => resolve({status:'pending'}), ...)
JWT_TTL   == 604800000     \* jwt.sign(..., { expiresIn: '7d' })
DAY       == 86400000      \* date('now') changes every 24 h

Variants == {"index", "part"}

VARIABLES
    variant,        \* which revision of the server runs
    now,            \* Date.now()
    issued,         \* issued[c]: when code c, the c-th uuidv4(), was handed out
    authRequests,   \* the Map: code -> [resolve, timestamp]
    expiryTimers,   \* pending setTimeout(delete) callbacks: [code, due]
    polls,          \* open status requests (suspended, or their 30 s timer set)
    nPolls,         \* status requests received so far
    answer,         \* the last status response sent
    delivered,      \* the codes whose token a status response carried, in order
    users,          \* rows of table users
    confirmed,      \* the /start confirmations that signed a token, in order
    botReply,       \* the bot's reply to the last /start
    tokens,         \* the tokens jwt.sign returned, which clients may present
    chats,          \* rows of table chats: chat id -> [user_id]
    messages,       \* rows of table messages, in order of their id
    sends,          \* send-message handlers suspended at `await` of the AI call
    nSends,         \* send-message requests received so far
    reply,          \* the last response to a send-message request
    aiCalls,        \* calls of the AI service so far
    runs,           \* the calls of AIService.generate, each with its provider attempts
    listing         \* the last response to a list-messages request

\* what the handshake handlers read and write besides variant, now and users
authVars == <<issued, authRequests, expiryTimers, polls, nPolls, answer, delivered,
              confirmed, botReply>>
\* what the chat handlers read and write besides variant, now and users
ledgerVars == <<chats, messages, sends, nSends, reply, aiCalls>>

\* what neither the handshake nor the send-message handlers write
restVars == <<runs, listing>>

vars == <<variant, now, issued, authRequests, expiryTimers, polls, nPolls, answer,
          delivered, users, confirmed, botReply, tokens, chats, messages, sends,
          nSends, reply, aiCalls, runs, listing>>

\* ------------------------------------------------------------------ values
Codes       == 1 .. MaxCodes
NeverIssued == MaxCodes + 2     \* a code no init ever returned
EmptyCode   == 0                \* match[1].trim() of a plain "/start"

\* what the `resolve` field of a registry entry is
AuthPromiseResolver == [kind |-> "authPromise", poll |-> 0]  \* index.js:524-526
NoopResolver        == [kind |-> "noop", poll |-> 0]         \* part_000:275
RaceResolver(p)     == [kind |-> "race", poll |-> p]         \* part_000:305-307

\* who signed a token: the server with JWT_SECRET, or someone without it
ServerKey == "server"
OtherKey  == "other"
NoToken == [userId |-> 0, telegramId |-> "", iat |-> 0, exp |-> 0, sig |-> ""]
NoUser  == [id |-> 0, telegram_id |-> ""]

EmptyMap == [c \in {} |-> 0]
has(map, c) == c \in DOMAIN map
delete(map, c) == [k \in (DOMAIN map) \ {c} |-> map[k]]
set(map, c, v) == [k \in (DOMAIN map) \cup {c} |-> IF k = c THEN v ELSE map[k]]

\* ------------------------------------------------------------- users table
getUser(tbl, tid) ==
    IF \E u \in tbl : u.telegram_id = tid
    THEN CHOOSE u \in tbl : u.telegram_id = tid
    ELSE NoUser

\* date('now'): the calendar day of the clock
date(t) == t \div DAY
\* a NULL last_reset
NullDate == 0 - 1

\* the DEFAULT of column last_reset: none in index.js (NULL), date('now') in
\* part_000
defaultLastReset == IF variant = "index" THEN NullDate ELSE date(now)

\* the DEFAULT of column last_active of index.js: CURRENT_TIMESTAMP, of which
\* the model keeps the date; part_000 has no such column
defaultLastActive == IF variant = "index" THEN date(now) ELSE NullDate

\* INSERT INTO users: id INTEGER PRIMARY KEY AUTOINCREMENT, the other columns
\* take their defaults; the program deletes no row.  (part_000 has no column
\* is_blocked and never reads one.)
createUser(tbl, tid) ==
    tbl \cup {[id |-> Cardinality(tbl) + 1, telegram_id |-> tid,
               daily_limit |-> DailyLimit, used_today |-> 0, total_messages |-> 0,
               last_reset |-> defaultLastReset, is_blocked |-> FALSE,
               last_active |-> defaultLastActive]}

\* (mutant) a row is inserted whether or not the user has one
getOrCreate_always(tbl, tid) == createUser(tbl, tid)

\* let user = get(tid); if (!user) { create(tid); user = get(tid) }
getOrCreate(tbl, tid) ==
    IF getUser(tbl, tid) = NoUser THEN createUser(tbl, tid) ELSE tbl

\* ------------------------------------------------------------------ tokens
\* jwt.sign({ userId: user.id, telegramId|tid: user.telegram_id }, SECRET, {expiresIn:'7d'})
jwtSign(user, t) ==
    [userId |-> user.id, telegramId |-> user.telegram_id, iat |-> t, exp |-> t + JWT_TTL,
     sig |-> ServerKey]

\* (mutant) the expiry of a token is not looked at
jwtVerify_forever(token, t) == token # NoToken /\ token.sig = ServerKey

\* jwt.verify: the signature is the server's and the token is not past its
\* expiry (jsonwebtoken throws TokenExpiredError when now >= exp)
jwtVerify(token, t) == token # NoToken /\ token.sig = ServerKey /\ t < token.exp

\* (mutant) only a missing row is refused
userRefused_missing(user) == user = NoUser

\* index.js:504: if (!user || user.is_blocked); part_000:249: if (!user)
userRefused(user) == user = NoUser \/ (variant = "index" /\ user.is_blocked)

\* (mutant) the payload is decoded without verification
authMiddleware_decodeOnly(token, tbl, t) ==
    IF token = NoToken THEN NoUser ELSE getUser(tbl, token.telegramId)

\* the auth middleware: the user the request runs as, or NoUser for a 401
authMiddleware(token, tbl, t) ==
    IF token = NoToken THEN NoUser
    ELSE IF ~jwtVerify(token, t) THEN NoUser
    ELSE IF userRefused(getUser(tbl, token.telegramId)) THEN NoUser
    ELSE getUser(tbl, token.telegramId)

\* --------------------------------------------------------------- promises
\* What a status request answers with: res.json's body.
Payload(success, status, token, user) ==
    [success |-> success, status |-> status, token |-> token, user |-> user]

NoResponse     == Payload(FALSE, "none", NoToken, NoUser)      \* not answered yet
\* (mutant) an unknown code is answered like a pending one
ExpiredBody_pending == Payload(FALSE, "pending", NoToken, NoUser)
ExpiredBody    == Payload(FALSE, "expired", NoToken, NoUser)   \* {success:false,status:'expired'}
PendingBody    == Payload(FALSE, "pending", NoToken, NoUser)   \* {success:false,status:'pending'}
TimeoutValue   == Payload(FALSE, "pending", NoToken, NoUser)   \* resolve({status:'pending'}): no success field
ResolvedValue(token, user) == Payload(TRUE, "", token, user)   \* resolve({success:true, token, user})
\* a function object read as a result: it has no `success` and no `status` property
FunctionValue  == Payload(FALSE, "", NoToken, NoUser)

\* An operand of Promise.race: a promise still pending, or a value (a non-thenable
\* operand, which Promise.race treats as a promise already resolved with it).
PendingPromise == [settled |-> FALSE, value |-> NoResponse]
PlainValue(v)  == [settled |-> TRUE, value |-> v]

\* Promise.race(items) at the time of the call: settled iff some operand is, and
\* then with the first such operand's value.
raceSettled(items) == \E i \in DOMAIN items : items[i].settled
raceValue(items) ==
    items[CHOOSE i \in DOMAIN items :
            items[i].settled /\ \A j \in DOMAIN items : j < i => ~items[j].settled].value

\* (mutant) whatever the race yields is sent as a success
statusBody_truthy(result) == Payload(TRUE, result.status, result.token, result.user)

\* res.json(result.success ? result : { success: false, status: 'pending' })
statusBody(result) == IF result.success THEN result ELSE PendingBody

\* ------------------------------------------------------- what is on record
expiryFired(c) == c \in DOMAIN issued /\ \A t \in expiryTimers : t.code # c
timeoutElapsed(c) == c \in DOMAIN issued /\ now > issued[c] + AUTH_TTL

\* the token the first accepted confirmation of code c signed
mintedFor(c) ==
    IF \E i \in DOMAIN confirmed : confirmed[i].code = c
    THEN confirmed[CHOOSE i \in DOMAIN confirmed :
                     confirmed[i].code = c
                     /\ \A j \in DOMAIN confirmed : confirmed[j].code = c => i <= j].token
    ELSE NoToken

deliveredFor(c) == \E i \in DOMAIN delivered : delivered[i] = c

\* ------------------------------------------------------------------ polls
NoTimer == 0

\* A status request for code c.  `waiting` while its handler is suspended in
\* the await; `timerDue` when its 30 s setTimeout is due.  The other fields
\* record what held when the request arrived (was the code registered, had its
\* 5 minutes elapsed, had a token been signed or delivered for it) and which
\* token a confirmation signed while the request was waiting.
Request(c, waiting, timerDue) ==
    [code |-> c, waiting |-> waiting, timerDue |-> timerDue,
     known |-> has(authRequests, c), late |-> timeoutElapsed(c),
     minted |-> mintedFor(c), delivered |-> deliveredFor(c), sawConfirm |-> NoToken]

\* The response to request `req`, sent `waited` ms after it arrived.
Answer(req, body, waited) ==
    [n |-> answer.n + 1, code |-> req.code, body |-> body, waited |-> waited,
     known |-> req.known, late |-> req.late, minted |-> req.minted,
     delivered |-> req.delivered, sawConfirm |-> req.sawConfirm,
     fired |-> expiryFired(req.code)]

NoAnswer ==
    [n |-> 0, code |-> EmptyCode, body |-> NoResponse, waited |-> 0,
     known |-> FALSE, late |-> FALSE, minted |-> NoToken,
     delivered |-> FALSE, sawConfirm |-> NoToken, fired |-> FALSE]

\* res.json(body)
send(req, body, waited) ==
    /\ answer' = Answer(req, body, waited)
    /\ delivered' = IF body.success THEN Append(delivered, req.code) ELSE delivered

waitedBy(req) == now - (req.timerDue - POLL_WAIT)

\* ------------------------------------------------------------------ inputs
nextCode == Len(issued) + 1     \* the next fresh code uuidv4() returns

\* codes a client or a Telegram user can present: those handed out so far, and
\* one that was never handed out
KnownCodes == (DOMAIN issued) \cup {NeverIssued}

\* --------------------------------------------------------------- the clock
expiryDue(c) == \E t \in expiryTimers : t.code = c /\ t.due <= now
raceDue(p)   == polls[p].timerDue <= now

\* Time passes only when no timer is due (a due callback runs first), and is
\* followed only while some timer is set: with none, no handler reads the clock
\* before the next init sets one.
Tick ==
    /\ now < MaxTicks * POLL_WAIT
    /\ expiryTimers # {} \/ DOMAIN polls # {}
    /\ \A t \in expiryTimers : t.due > now
    /\ \A p \in DOMAIN polls : ~raceDue(p)
    /\ now' = now + POLL_WAIT
    /\ UNCHANGED ledgerVars
    /\ UNCHANGED restVars
    /\ UNCHANGED tokens
    /\ UNCHANGED <<variant, issued, authRequests, expiryTimers, polls, nPolls, answer,
                   delivered, users, confirmed, botReply>>

\* ------------------------------------------------- POST /api/auth/init
\* The entry a fresh code is registered with.
initEntry_index(t) == [resolve |-> AuthPromiseResolver, timestamp |-> t]
initEntry_part(t)  == [resolve |-> NoopResolver, timestamp |-> t]

\* (mutant) the expiry timer is set with twice the delay
scheduleExpiry_late(timers, c, t) == timers \cup {[code |-> c, due |-> t + 2 * AUTH_TTL]}

\* (mutant) no expiry timer is set
scheduleExpiry_never(timers, c, t) == timers

\* setTimeout(() => authRequests.delete(code), 5 min)
scheduleExpiry(timers, c, t) == timers \cup {[code |-> c, due |-> t + AUTH_TTL]}

authInit_index ==
    /\ variant = "index"
    /\ nextCode <= MaxCodes
    /\ authRequests' = set(authRequests, nextCode, initEntry_index(now))
    /\ expiryTimers' = scheduleExpiry(expiryTimers, nextCode, now)
    /\ issued' = Append(issued, now)
    /\ UNCHANGED ledgerVars
    /\ UNCHANGED restVars
    /\ UNCHANGED tokens
    /\ UNCHANGED <<variant, now, polls, nPolls, answer, delivered, users, confirmed, botReply>>

authInit_part ==
    /\ variant = "part"
    /\ nextCode <= MaxCodes
    /\ authRequests' = set(authRequests, nextCode, initEntry_part(now))
    /\ expiryTimers' = scheduleExpiry(expiryTimers, nextCode, now)
    /\ issued' = Append(issued, now)
    /\ UNCHANGED ledgerVars
    /\ UNCHANGED restVars
    /\ UNCHANGED tokens
    /\ UNCHANGED <<variant, now, polls, nPolls, answer, delivered, users, confirmed, botReply>>

\* (mutant) the expiry callback leaves the entry in the registry
expiryCallback_keeps(map, c) == map

\* (mutant) the expiry callback clears the registry
expiryCallback_all(map, c) == EmptyMap

\* The callback of the expiry timer: authRequests.delete(code).  Both revisions
\* set it with the same delay, so the callbacks run in the order of the inits.
expiryCallback(map, c) == delete(map, c)

expiryTimeout(c) ==
    /\ expiryDue(c)
    /\ \A t \in expiryTimers : t.code >= c
    /\ authRequests' = expiryCallback(authRequests, c)
    /\ expiryTimers' = {t \in expiryTimers : t.code # c}
    /\ UNCHANGED ledgerVars
    /\ UNCHANGED restVars
    /\ UNCHANGED tokens
    /\ UNCHANGED <<variant, now, issued, polls, nPolls, answer, delivered, users,
                   confirmed, botReply>>

\* ------------------------------------------- GET /api/auth/status/:code
\* index.js:550-553: the first operand of the race is the entry's `resolve`
\* FUNCTION, not a promise; the second is the 30 s timeout promise.
raceOperands_index == <<PlainValue(FunctionValue), PendingPromise>>
\* part_000:304-311: a new promise whose resolver is stored in the entry, and
\* the 30 s timeout promise.
raceOperands_part  == <<PendingPromise, PendingPromise>>

\* `await Promise.race(items)` in the handler of request p for code c: the
\* 30 s timer is set; the handler answers at once if the race is settled and
\* is suspended otherwise.
awaitRace(p, c, items) ==
    IF raceSettled(items)
    THEN /\ polls' = set(polls, p, Request(c, FALSE, now + POLL_WAIT))
         /\ send(Request(c, FALSE, now + POLL_WAIT), statusBody(raceValue(items)), 0)
    ELSE /\ polls' = set(polls, p, Request(c, TRUE, now + POLL_WAIT))
         /\ UNCHANGED <<answer, delivered>>

authStatus_index(c) ==
    /\ variant = "index"
    /\ nPolls < MaxPolls
    /\ nPolls' = nPolls + 1
    /\ IF ~has(authRequests, c)
       THEN /\ send(Request(c, FALSE, NoTimer), ExpiredBody, 0)
            /\ UNCHANGED polls
       ELSE awaitRace(nPolls + 1, c, raceOperands_index)
    /\ UNCHANGED ledgerVars
    /\ UNCHANGED restVars
    /\ UNCHANGED tokens
    /\ UNCHANGED <<variant, now, issued, authRequests, expiryTimers, users, confirmed, botReply>>

\* (mutant) a resolver a request has stored is not overwritten
storeResolver_keep(map, c, p) ==
    IF map[c].resolve.kind = "race" THEN map
    ELSE set(map, c, [map[c] EXCEPT !.resolve = [kind |-> "race", poll |-> p]])

\* authRequests.get(code).resolve = resolve
storeResolver(map, c, p) == set(map, c, [map[c] EXCEPT !.resolve = RaceResolver(p)])

authStatus_part(c) ==
    /\ variant = "part"
    /\ nPolls < MaxPolls
    /\ nPolls' = nPolls + 1
    /\ IF ~has(authRequests, c)
       THEN /\ send(Request(c, FALSE, NoTimer), ExpiredBody, 0)
            /\ UNCHANGED <<polls, authRequests>>
       ELSE /\ authRequests' = storeResolver(authRequests, c, nPolls + 1)
            /\ awaitRace(nPolls + 1, c, raceOperands_part)
    /\ UNCHANGED ledgerVars
    /\ UNCHANGED restVars
    /\ UNCHANGED tokens
    /\ UNCHANGED <<variant, now, issued, expiryTimers, users, confirmed, botReply>>

\* (mutant) the 30 s timer of a request also removes the entry of its code
raceTimeout_cleanup(p) ==
    /\ raceDue(p)
    /\ \A q \in DOMAIN polls : q >= p
    /\ polls' = [q \in (DOMAIN polls) \ {p} |-> polls[q]]
    /\ authRequests' = delete(authRequests, polls[p].code)
    /\ IF polls[p].waiting
       THEN send(polls[p], statusBody(TimeoutValue), waitedBy(polls[p]))
       ELSE UNCHANGED <<answer, delivered>>
    /\ UNCHANGED ledgerVars
    /\ UNCHANGED restVars
    /\ UNCHANGED tokens
    /\ UNCHANGED <<variant, now, issued, expiryTimers, nPolls, users, confirmed, botReply>>

\* The callback of a request's 30 s timer: resolve({ status: 'pending' }).  It
\* settles the race if the request still waits and does nothing otherwise.
\* All these timers have the same delay and run in the order they were set.
raceTimeout(p) ==
    /\ raceDue(p)
    /\ \A q \in DOMAIN polls : q >= p
    /\ polls' = [q \in (DOMAIN polls) \ {p} |-> polls[q]]
    /\ IF polls[p].waiting
       THEN send(polls[p], statusBody(TimeoutValue), waitedBy(polls[p]))
       ELSE UNCHANGED <<answer, delivered>>
    /\ UNCHANGED ledgerVars
    /\ UNCHANGED restVars
    /\ UNCHANGED tokens
    /\ UNCHANGED <<variant, now, issued, authRequests, expiryTimers, nPolls, users,
                   confirmed, botReply>>

\* ------------------------------------------------------ bot.onText(/start)
\* bot.sendMessage(chatId, text), in answer to "/start <c>" from u
Reply(u, c, text) == [to |-> u, code |-> c, text |-> text]
\* For the record: a /start that signed `token`, and how many status requests
\* were waiting on its code at that time.
Confirmation(c, u, token) ==
    [code |-> c, from |-> u, token |-> token,
     waiters |-> Cardinality({p \in DOMAIN polls : polls[p].code = c /\ polls[p].waiting})]

\* For the record: the requests waiting on code c see that `token` was signed.
noteConfirm(ps, c, token) ==
    [p \in DOMAIN ps |->
        IF ps[p].code = c /\ ps[p].waiting
        THEN [ps[p] EXCEPT !.sawConfirm = token] ELSE ps[p]]

\* (mutant) the request a confirmation settles is left suspended
callResolve_stillWaiting(c, token, user) ==
    LET r  == authRequests[c].resolve
        ps == noteConfirm(polls, c, token)
    IN  IF r.kind = "race" /\ has(ps, r.poll) /\ ps[r.poll].waiting
        THEN /\ polls' = ps
             /\ send(ps[r.poll], statusBody(ResolvedValue(token, user)), waitedBy(ps[r.poll]))
        ELSE /\ polls' = ps
             /\ UNCHANGED <<answer, delivered>>

\* authRequests.get(code).resolve({ success: true, token, user }): a stored race
\* resolver settles the race of its request, whose handler then answers; the
\* resolver of a settled race, of the init promise nobody reads, or the no-op
\* reaches no request.
callResolve(c, token, user) ==
    LET r  == authRequests[c].resolve
        ps == noteConfirm(polls, c, token)
    IN  IF r.kind = "race" /\ has(ps, r.poll) /\ ps[r.poll].waiting
        THEN /\ polls' = [ps EXCEPT ![r.poll].waiting = FALSE]
             /\ send(ps[r.poll], statusBody(ResolvedValue(token, user)), waitedBy(ps[r.poll]))
        ELSE /\ polls' = ps
             /\ UNCHANGED <<answer, delivered>>

\* (mutant) a confirmed entry stays in the registry
deleteConfirmed_kept(map, c) == map

\* authRequests.delete(code), the statement after the resolve call
deleteConfirmed(map, c) == delete(map, c)

\* (mutant) the check of the code against the registry is missing
authCodeValid_unchecked(map, c) == TRUE

\* index.js:352: if (!authRequests.has(authCode)) { ...invalid code...; return }
authCodeValid(map, c) == has(map, c)

\* index.js: handleWebAuth, called for a non-empty code.  Nothing is awaited
\* between the has() check and the delete(); the sendMessage that follows only
\* replies.  A TypeError on requestData.resolve would reject the handler's
\* promise, which nothing catches.
handleWebAuth(u, c) ==
    /\ variant = "index"
    /\ c # EmptyCode
    /\ IF ~authCodeValid(authRequests, c)
       THEN /\ botReply' = Reply(u, c, "invalid_code")
            /\ UNCHANGED <<authRequests, polls, answer, delivered, users, confirmed, tokens>>
       ELSE LET tbl   == getOrCreate(users, u)
                user  == getUser(tbl, u)
                token == jwtSign(user, now)
            IN  /\ users' = tbl
                /\ tokens' = tokens \cup {token}
                /\ confirmed' = Append(confirmed, Confirmation(c, u, token))
                /\ IF has(authRequests, c)
                   THEN /\ callResolve(c, token, user)
                        /\ authRequests' = deleteConfirmed(authRequests, c)
                        /\ botReply' = Reply(u, c, "auth_ok")
                   ELSE /\ botReply' = Reply(u, c, "unhandled_rejection")
                        /\ UNCHANGED <<authRequests, polls, answer, delivered>>
    /\ UNCHANGED ledgerVars
    /\ UNCHANGED restVars
    /\ UNCHANGED <<variant, now, issued, expiryTimers, nPolls>>

\* index.js: showMainMenu, called for a plain /start: registers the user.
showMainMenu(u) ==
    /\ variant = "index"
    /\ users' = getOrCreate(users, u)
    /\ botReply' = Reply(u, EmptyCode, "welcome")
    /\ UNCHANGED ledgerVars
    /\ UNCHANGED restVars
    /\ UNCHANGED tokens
    /\ UNCHANGED <<variant, now, issued, authRequests, expiryTimers, polls, nPolls,
                   answer, delivered, confirmed>>

\* part_000:168: if (code && authRequests.has(code))
isWebAuth(map, c) == c # EmptyCode /\ has(map, c)

\* part_000: the /start handler; its body is inside try/catch, and the catch
\* replies with an error message.
onTextStart(u, c) ==
    /\ variant = "part"
    /\ IF ~isWebAuth(authRequests, c)
       THEN /\ botReply' = Reply(u, c, "welcome")
            /\ UNCHANGED <<authRequests, polls, answer, delivered, users, confirmed, tokens>>
       ELSE LET tbl   == getOrCreate(users, u)
                user  == getUser(tbl, u)
                token == jwtSign(user, now)
            IN  /\ users' = tbl
                /\ tokens' = tokens \cup {token}
                /\ confirmed' = Append(confirmed, Confirmation(c, u, token))
                /\ IF has(authRequests, c)
                   THEN /\ callResolve(c, token, user)
                        /\ authRequests' = deleteConfirmed(authRequests, c)
                        /\ botReply' = Reply(u, c, "auth_ok")
                   ELSE /\ botReply' = Reply(u, c, "error")
                        /\ UNCHANGED <<authRequests, polls, answer, delivered>>
    /\ UNCHANGED ledgerVars
    /\ UNCHANGED restVars
    /\ UNCHANGED <<variant, now, issued, expiryTimers, nPolls>>

\* ----------------------------------------------------------- the system
NoReply == [n |-> 0, req |-> 0, status |-> 0, cred |-> NoToken, who |-> NoUser, user |-> NoUser, assistant |-> FALSE,
            outcome |-> ""]

NoListing == [n |-> 0, status |-> 0, cred |-> NoToken, who |-> NoUser, chat |-> 0,
              rows |-> <<>>]

Init ==
    /\ variant \in Variants
    /\ now = 0
    /\ issued = <<>>
    /\ authRequests = EmptyMap
    /\ expiryTimers = {}
    /\ polls = EmptyMap
    /\ nPolls = 0
    /\ answer = NoAnswer
    /\ delivered = <<>>
    /\ users = {}
    /\ confirmed = <<>>
    /\ botReply = Reply("", EmptyCode, "none")
    /\ tokens = {}
    /\ chats = EmptyMap
    /\ messages = <<>>
    /\ sends = EmptyMap
    /\ nSends = 0
    /\ reply = NoReply
    /\ aiCalls = 0
    /\ runs = EmptyMap
    /\ listing = NoListing

Next ==
    \/ Tick
    \/ authInit_index
    \/ authInit_part
    \/ \E c \in Codes : expiryTimeout(c)
    \/ \E c \in KnownCodes : authStatus_index(c)
    \/ \E c \in KnownCodes : authStatus_part(c)
    \/ \E p \in DOMAIN polls : raceTimeout(p)
    \/ \E u \in TelegramIds, c \in KnownCodes : handleWebAuth(u, c)
    \/ \E u \in TelegramIds : showMainMenu(u)
    \/ \E u \in TelegramIds, c \in KnownCodes \cup {EmptyCode} : onTextStart(u, c)

Spec == Init /\ [][Next]_vars

\* The event loop runs a timer's callback once it is due, and time passes
\* while no callback is due.
FairSpec ==
    /\ Spec
    /\ WF_vars(Tick)
    /\ WF_vars(\E c \in Codes : expiryTimeout(c))
    /\ WF_vars(\E p \in DOMAIN polls : raceTimeout(p))

\* ------------------------------------------------------ two codes at once
\* The handshake with two codes in the registry.  It starts where two clients
\* have called POST /api/auth/init, the second one `now` ms after the first,
\* and nothing else has happened; no further code is handed out.
initEntry(t) == IF variant = "index" THEN initEntry_index(t) ELSE initEntry_part(t)

PairInit ==
    /\ variant \in Variants
    /\ now \in {0, POLL_WAIT}
    /\ issued = <<0, now>>
    /\ authRequests = set(set(EmptyMap, 1, initEntry(0)), 2, initEntry(now))
    /\ expiryTimers = scheduleExpiry(scheduleExpiry({}, 1, 0), 2, now)
    /\ polls = EmptyMap
    /\ nPolls = 0
    /\ answer = NoAnswer
    /\ delivered = <<>>
    /\ users = {}
    /\ confirmed = <<>>
    /\ botReply = Reply("", EmptyCode, "none")
    /\ tokens = {}
    /\ chats = EmptyMap
    /\ messages = <<>>
    /\ sends = EmptyMap
    /\ nSends = 0
    /\ reply = NoReply
    /\ aiCalls = 0
    /\ runs = EmptyMap
    /\ listing = NoListing

PairNext ==
    \/ Tick
    \/ \E c \in DOMAIN issued : expiryTimeout(c)
    \/ \E c \in DOMAIN issued : nPolls < MaxPairPolls /\ authStatus_index(c)
    \/ \E c \in DOMAIN issued : nPolls < MaxPairPolls /\ authStatus_part(c)
    \/ \E p \in DOMAIN polls : raceTimeout(p)
    \/ \E u \in TelegramIds, c \in DOMAIN issued : handleWebAuth(u, c)
    \/ \E u \in TelegramIds, c \in DOMAIN issued : onTextStart(u, c)

SpecPair == PairInit /\ [][PairNext]_vars

\* ============================================================ chat endpoints
\* The quota bookkeeping of POST /api/chat/:id/message.  The handler runs up to
\* `await` of the AI call in one step and resumes, in a later step, when the
\* call has settled; other handlers run in between.  The clock of this part
\* advances by days.

\* --------------------------------------------------------------- statements
\* (mutant) the day reset touches no row
resetDailyLimit_none(tbl, today) == tbl

\* resetDailyLimit / resetDaily: UPDATE users SET used_today = 0, last_reset =
\* date('now') WHERE date(last_reset) < date('now').  It has no WHERE on the id:
\* every row is visited; a NULL last_reset compares as NULL and is not selected.
resetDailyLimit(tbl, today) ==
    {IF u.last_reset # NullDate /\ u.last_reset < today
     THEN [u EXCEPT !.used_today = 0, !.last_reset = today]
     ELSE u : u \in tbl}

\* (mutant) the counter is written back from the row the handler read
incrementUserStats_stale(tbl, msgs, user) ==
    {IF u.id = user.id
     THEN [u EXCEPT !.total_messages = user.total_messages + msgs,
                    !.used_today = user.used_today + 1,
                    !.last_active = date(now)]
     ELSE u : u \in tbl}

\* index.js incrementUserStats.run(2, tokens, user.id): UPDATE users SET
\* total_messages = total_messages + ?, used_today = used_today + 1,
\* last_active = datetime('now') WHERE id = ?
incrementUserStats(tbl, msgs, user) ==
    {IF u.id = user.id
     THEN [u EXCEPT !.total_messages = @ + msgs, !.used_today = @ + 1,
                    !.last_active = date(now)]
     ELSE u : u \in tbl}

\* part_000 incrementUsage.run(user.id): used_today + 1, total_messages + 1
incrementUsage(tbl, user) ==
    {IF u.id = user.id
     THEN [u EXCEPT !.total_messages = @ + 1, !.used_today = @ + 1]
     ELSE u : u \in tbl}

\* (mutant) the limit is not checked
limitReached_never(user) == FALSE

\* if (user.used_today >= user.daily_limit) return res.status(429)
limitReached(user) == user.used_today >= user.daily_limit

NoChat == [user_id |-> 0]
\* (mutant) the chat is looked up by its id alone
getChat_anyOwner(tbl, id, uid) == IF has(tbl, id) THEN tbl[id] ELSE NoChat

\* SELECT * FROM chats WHERE id = ? AND user_id = ?
getChat(tbl, id, uid) == IF has(tbl, id) /\ tbl[id].user_id = uid THEN tbl[id] ELSE NoChat
ChatIds == 1 .. (MaxChats + 1)      \* the ids a request can name: one is no chat's

\* INSERT INTO messages (chat_id, role, content): `content` is the text of
\* request r, or the text the AI call of request r returned
createMessage(tbl, chat, role, r, text) ==
    Append(tbl, [chat_id |-> chat, role |-> role, req |-> r, content |-> text])

\* req.body.content: some text, or nothing but blanks
Contents == {"text", ""}
\* how the upstream AI call ends
Outcomes == {"ok", "error"}
\* what AI.chat of part_000 returns: the model's text, or, from its catch
\* block, one of the canned error texts
chatText(outcome) == IF outcome = "ok" THEN "ai_text" ELSE "canned_error_text"

\* ------------------------------------------------------------ credentials
\* The Authorization header of a request: none, a token the server signed, or
\* the payload of such a token signed by someone else.
Credentials ==
    {NoToken} \cup tokens \cup {[t EXCEPT !.sig = OtherKey] : t \in tokens}

\* ---------------------------------------------------------------- responses
\* res.status(status).json(...) to send-message request r, with, for the
\* record: the request's Authorization header, req.user (NoUser if the
\* middleware refused), the user row the limit check read (NoUser if it was not
\* reached), whether the body carries an assistantMessage, and how the AI call
\* ended.
Response(r, status, cred, who, user, assistant, outcome) ==
    [n |-> reply.n + 1, req |-> r, status |-> status, cred |-> cred, who |-> who,
     user |-> user, assistant |-> assistant, outcome |-> outcome]

\* ------------------------------------------- POST /api/chat/:chatId/message
respond(r, status, cred, who, user, assistant, outcome) ==
    reply' = Response(r, status, cred, who, user, assistant, outcome)

\* The handler suspended at `await`: it keeps the request (its Authorization
\* header, its chat id), req.user (the row the middleware found) and the row
\* `user` it read for the limit check.
Suspended(cred, who, user, chat) == [cred |-> cred, who |-> who, user |-> user, chat |-> chat]

\* index.js:602-641, up to `await aiService.generate(...)`.  The body is not
\* validated.  (The settings row the handler inserts is not part of the model.)
sendMessage_index(cred, chat) ==
    /\ variant = "index"
    /\ nSends < MaxSends
    /\ nSends' = nSends + 1
    /\ LET r    == nSends + 1
           who  == authMiddleware(cred, users, now)
           tbl  == resetDailyLimit(users, date(now))
           user == getUser(tbl, who.telegram_id)
       IN  IF who = NoUser
           THEN /\ respond(r, 401, cred, NoUser, NoUser, FALSE, "")
                /\ UNCHANGED <<users, messages, sends, aiCalls>>
           ELSE /\ users' = tbl
                /\ IF limitReached(user)
                   THEN /\ respond(r, 429, cred, who, user, FALSE, "")
                        /\ UNCHANGED <<messages, sends, aiCalls>>
                   ELSE IF getChat(chats, chat, user.id) = NoChat
                   THEN /\ respond(r, 404, cred, who, user, FALSE, "")
                        /\ UNCHANGED <<messages, sends, aiCalls>>
                   ELSE /\ messages' = createMessage(messages, chat, "user", r, "text")
                        /\ aiCalls' = aiCalls + 1
                        /\ sends' = set(sends, r, Suspended(cred, who, user, chat))
                        /\ UNCHANGED reply
    /\ UNCHANGED <<variant, now, tokens, chats>>
    /\ UNCHANGED authVars
    /\ UNCHANGED restVars

\* index.js:641-675, from the point aiService.generate settles: it returns a
\* response, or throws once the requested model and the gemini-pro fallback
\* have failed, and the catch block answers 500.
aiSettled_index(r, outcome) ==
    /\ variant = "index"
    /\ has(sends, r)
    /\ sends' = delete(sends, r)
    /\ IF outcome = "ok"
       THEN /\ messages' = createMessage(messages, sends[r].chat, "assistant", r, "ai_text")
            /\ users' = incrementUserStats(users, 2, sends[r].user)
            /\ respond(r, 200, sends[r].cred, sends[r].who, sends[r].user, TRUE, outcome)
       ELSE /\ respond(r, 500, sends[r].cred, sends[r].who, sends[r].user, FALSE, outcome)
            /\ UNCHANGED <<messages, users>>
    /\ UNCHANGED <<variant, now, tokens, chats, nSends, aiCalls>>
    /\ UNCHANGED authVars
    /\ UNCHANGED restVars

\* part_000:357-395, up to `await ai.chat(history)`.
sendMessage_part(cred, chat, content) ==
    /\ variant = "part"
    /\ nSends < MaxSends
    /\ nSends' = nSends + 1
    /\ LET r    == nSends + 1
           who  == authMiddleware(cred, users, now)
           tbl  == resetDailyLimit(users, date(now))
           user == getUser(tbl, who.telegram_id)
       IN  IF who = NoUser
           THEN /\ respond(r, 401, cred, NoUser, NoUser, FALSE, "")
                /\ UNCHANGED <<users, messages, sends, aiCalls>>
           ELSE IF content = ""
           THEN /\ respond(r, 400, cred, who, NoUser, FALSE, "")
                /\ UNCHANGED <<users, messages, sends, aiCalls>>
           ELSE IF getChat(chats, chat, who.id) = NoChat
           THEN /\ respond(r, 404, cred, who, NoUser, FALSE, "")
                /\ UNCHANGED <<users, messages, sends, aiCalls>>
           ELSE /\ users' = tbl
                /\ IF limitReached(user)
                   THEN /\ respond(r, 429, cred, who, user, FALSE, "")
                        /\ UNCHANGED <<messages, sends, aiCalls>>
                   ELSE /\ messages' = createMessage(messages, chat, "user", r, content)
                        /\ aiCalls' = aiCalls + 1
                        /\ sends' = set(sends, r, Suspended(cred, who, user, chat))
                        /\ UNCHANGED reply
    /\ UNCHANGED <<variant, now, tokens, chats>>
    /\ UNCHANGED authVars
    /\ UNCHANGED restVars

\* part_000:395-408, from the point ai.chat settles.  ai.chat never throws: its
\* catch block returns a canned text, which the handler treats as the reply.
aiSettled_part(r, outcome) ==
    /\ variant = "part"
    /\ has(sends, r)
    /\ sends' = delete(sends, r)
    /\ messages' = createMessage(messages, sends[r].chat, "assistant", r, chatText(outcome))
    /\ users' = incrementUsage(users, sends[r].user)
    /\ respond(r, 200, sends[r].cred, sends[r].who, sends[r].user, TRUE, outcome)
    /\ UNCHANGED <<variant, now, tokens, chats, nSends, aiCalls>>
    /\ UNCHANGED authVars
    /\ UNCHANGED restVars

\* ----------------------------------------------------------- POST /api/chat
\* An authorized request inserts a chat owned by req.user (index.js also
\* counts it in users.total_chats, a column the model leaves out); one that is
\* not authorized is answered 401 and changes nothing.
createChat(cred) ==
    /\ authMiddleware(cred, users, now) # NoUser
    /\ Cardinality(DOMAIN chats) < MaxChats
    /\ chats' = set(chats, Cardinality(DOMAIN chats) + 1,
                    [user_id |-> authMiddleware(cred, users, now).id])
    /\ UNCHANGED <<variant, now, users, tokens, messages, sends, nSends, reply, aiCalls>>
    /\ UNCHANGED authVars
    /\ UNCHANGED restVars

\* ------------------------------------------- GET /api/chat/:chatId/messages
\* SELECT * FROM messages WHERE chat_id = ? ORDER BY created_at ASC
getChatMessages(tbl, chat) == SelectSeq(tbl, LAMBDA m : m.chat_id = chat)

\* res.status(status).json(...) to a list-messages request, with, for the
\* record, the request's Authorization header and chat id and req.user
Listing(status, cred, who, chat, rows) ==
    [n |-> listing.n + 1, status |-> status, cred |-> cred, who |-> who, chat |-> chat,
     rows |-> rows]

\* index.js:589-599, part_000:343-355: behind the auth middleware; 404 unless
\* the chat is req.user's, else the chat's messages.  It writes nothing.
listMessages(cred, chat) ==
    /\ listing.n < MaxLists
    /\ LET who == authMiddleware(cred, users, now)
       IN  listing' =
              IF who = NoUser THEN Listing(401, cred, NoUser, chat, <<>>)
              ELSE IF getChat(chats, chat, who.id) = NoChat
              THEN Listing(404, cred, who, chat, <<>>)
              ELSE Listing(200, cred, who, chat, getChatMessages(messages, chat))
    /\ UNCHANGED <<variant, now, users, tokens, runs>>
    /\ UNCHANGED authVars
    /\ UNCHANGED ledgerVars

\* ------------------------------------------------------------- environment
\* The accepted branch of the /start handler (index.js:357-373,
\* part_000:170-185) for a code that is in the registry: the user row is
\* looked up or inserted and a token is signed.  The registry side of the
\* handler is the subject of Spec.
webAuthAccepted(u) ==
    /\ Cardinality(tokens) < MaxSignIns
    /\ users' = getOrCreate(users, u)
    /\ tokens' = tokens \cup {jwtSign(getUser(getOrCreate(users, u), u), now)}
    /\ UNCHANGED <<variant, now>>
    /\ UNCHANGED ledgerVars
    /\ UNCHANGED restVars
    /\ UNCHANGED authVars
    /\ UNCHANGED restVars

\* midnight passes
NextDay ==
    /\ now < MaxDays * DAY
    /\ now' = now + DAY
    /\ UNCHANGED <<variant, users, tokens>>
    /\ UNCHANGED ledgerVars
    /\ UNCHANGED restVars
    /\ UNCHANGED authVars
    /\ UNCHANGED restVars

\* An operator sets users.is_blocked, the column the middleware of index.js
\* reads; no statement of the program writes it.
blockUser(u) ==
    /\ variant = "index"
    /\ getUser(users, u) # NoUser
    /\ ~getUser(users, u).is_blocked
    /\ users' = {IF x.telegram_id = u THEN [x EXCEPT !.is_blocked = TRUE] ELSE x : x \in users}
    /\ UNCHANGED <<variant, now, tokens>>
    /\ UNCHANGED ledgerVars
    /\ UNCHANGED restVars
    /\ UNCHANGED authVars
    /\ UNCHANGED restVars

\* The server restarts on an empty database file (new Database(...), CREATE
\* TABLE IF NOT EXISTS) with the same JWT_SECRET: the rows are gone, the
\* suspended handlers are gone, the tokens clients hold remain.
restartOnEmptyDb ==
    /\ users # {}
    /\ users' = {}
    /\ chats' = EmptyMap
    /\ messages' = <<>>
    /\ sends' = EmptyMap
    /\ UNCHANGED <<variant, now, tokens, nSends, reply, aiCalls>>
    /\ UNCHANGED authVars
    /\ UNCHANGED restVars

LedgerNext ==
    \/ NextDay
    \/ \E u \in TelegramIds : webAuthAccepted(u)
    \/ \E u \in TelegramIds : blockUser(u)
    \/ restartOnEmptyDb
    \/ \E cred \in Credentials : createChat(cred)
    \/ \E cred \in Credentials, chat \in ChatIds : sendMessage_index(cred, chat)
    \/ \E cred \in Credentials, chat \in ChatIds, content \in Contents :
          sendMessage_part(cred, chat, content)
    \/ \E r \in DOMAIN sends, outcome \in Outcomes : aiSettled_index(r, outcome)
    \/ \E r \in DOMAIN sends, outcome \in Outcomes : aiSettled_part(r, outcome)

SpecLedger == Init /\ [][LedgerNext]_vars

\* ------------------------------------------------------- two users' chats
\* The chat endpoints with two users.  It starts where both Telegram users
\* have confirmed a code (the accepted branch of /start ran twice), each has a
\* row and holds a token, and no chat exists yet.
OwnerInit ==
    /\ variant \in Variants
    /\ now = 0
    /\ users = getOrCreate(getOrCreate({}, "U1"), "U2")
    /\ tokens = {jwtSign(getUser(users, u), now) : u \in TelegramIds}
    /\ issued = <<>>
    /\ authRequests = EmptyMap
    /\ expiryTimers = {}
    /\ polls = EmptyMap
    /\ nPolls = 0
    /\ answer = NoAnswer
    /\ delivered = <<>>
    /\ confirmed = <<>>
    /\ botReply = Reply("", EmptyCode, "none")
    /\ chats = EmptyMap
    /\ messages = <<>>
    /\ sends = EmptyMap
    /\ nSends = 0
    /\ reply = NoReply
    /\ aiCalls = 0
    /\ runs = EmptyMap
    /\ listing = NoListing

OwnerNext ==
    \/ \E cred \in Credentials : createChat(cred)
    \/ \E cred \in Credentials, chat \in ChatIds : listMessages(cred, chat)
    \/ \E cred \in Credentials, chat \in ChatIds : sendMessage_index(cred, chat)
    \/ \E cred \in Credentials, chat \in ChatIds, content \in Contents :
          sendMessage_part(cred, chat, content)
    \/ \E r \in DOMAIN sends, outcome \in Outcomes : aiSettled_index(r, outcome)
    \/ \E r \in DOMAIN sends, outcome \in Outcomes : aiSettled_part(r, outcome)

SpecOwner == OwnerInit /\ [][OwnerNext]_vars

\* =============================================================== AI service
\* index.js: AIService.generate(model, messages, settings).  `model` is
\* chats.model, which POST /api/chat stores as the client sent it.
KnownModels == {"gemini-pro", "cohere-command", "huggingface", "together-llama"}
RequestedModels == KnownModels \cup {"unlisted"}

\* const handler = this.models[model] || this.models['gemini-pro']
handlerOf(model) == IF model \in KnownModels THEN model ELSE "gemini-pro"

\* (mutant) the fallback is tried after any failure
fallsBack_always(model) == TRUE

\* if (model !== 'gemini-pro') return this.generate('gemini-pro', ...)
fallsBack(model) == model # "gemini-pro"

\* One execution of the body of generate: the model it was called with, the
\* provider handler it awaits, and how that ended ("ok": the handler returned
\* a response the try block could use; "fail": the try block threw).
Attempt(model) == [model |-> model, handler |-> handlerOf(model), outcome |-> "pending"]

ProviderOutcomes == {"ok", "fail"}

\* A route handler calls aiService.generate(model, ...): the body runs up to
\* `await handler(messages, settings)`.
generate(model) ==
    /\ variant = "index"
    /\ Cardinality(DOMAIN runs) < MaxRuns
    /\ runs' = set(runs, Cardinality(DOMAIN runs) + 1,
                   [model |-> model, attempts |-> <<Attempt(model)>>, result |-> "pending"])
    /\ UNCHANGED <<variant, now, users, tokens, listing>>
    /\ UNCHANGED authVars
    /\ UNCHANGED ledgerVars

\* The awaited handler of call r settles.  On success generate returns; on
\* failure the catch block calls generate('gemini-pro', ...) unless this
\* execution was for 'gemini-pro' itself, in which case it rethrows.  The
\* promise of an outer execution settles as the inner one does.
handlerSettles(r, outcome) ==
    /\ has(runs, r)
    /\ runs[r].result = "pending"
    /\ LET k    == Len(runs[r].attempts)
           this == runs[r].attempts[k]
           done == [runs[r].attempts EXCEPT ![k].outcome = outcome]
       IN  runs' = set(runs, r,
                IF outcome = "ok"
                THEN [runs[r] EXCEPT !.attempts = done, !.result = "returned"]
                ELSE IF fallsBack(this.model)
                THEN [runs[r] EXCEPT !.attempts = Append(done, Attempt("gemini-pro"))]
                ELSE [runs[r] EXCEPT !.attempts = done, !.result = "thrown"])
    /\ UNCHANGED <<variant, now, users, tokens, listing>>
    /\ UNCHANGED authVars
    /\ UNCHANGED ledgerVars

AINext ==
    \/ \E model \in RequestedModels : generate(model)
    \/ \E r \in DOMAIN runs, outcome \in ProviderOutcomes : handlerSettles(r, outcome)

SpecAI == Init /\ [][AINext]_vars

\* =================================================================== claims
answered == answer.n > 0
confirmationsOf(c) == {i \in DOMAIN confirmed : confirmed[i].code = c}

\* C1: a status request that is waiting when the bot receives "/start X" from
\* user U answers success:true with the token that confirmation signed, whose
\* subject is U and which the auth middleware accepts; it answers neither
\* 'pending' nor 'expired'.
C1_WaitingPollGetsToken ==
    (answered /\ answer.sawConfirm # NoToken) =>
        /\ answer.body.success
        /\ answer.body.token = answer.sawConfirm
        /\ \E i \in confirmationsOf(answer.code) :
              /\ confirmed[i].token = answer.body.token
              /\ authMiddleware(answer.body.token, users, now) # NoUser
              /\ authMiddleware(answer.body.token, users, now).telegram_id = confirmed[i].from

\* C2: when the one confirmation of a code arrives while no status request is
\* waiting on it, the next status request for the code answers with the token
\* that confirmation signed: the token is not lost.
C2_TokenNeverLost ==
    (/\ answered
     /\ ~answer.delivered
     /\ \E i \in confirmationsOf(answer.code) :
           confirmed[i].waiters = 0 /\ confirmed[i].token = answer.minted) =>
        /\ answer.body.success
        /\ answer.body.token = answer.minted

\* C3: at most one /start per code signs a token; any other /start for that
\* code finds it absent, signs nothing, leaves the delivered token that of the
\* first confirmation, and raises no error in the handler.
C3_AtMostOneConfirmation ==
    /\ \A c \in Codes : Cardinality(confirmationsOf(c)) <= 1
    /\ botReply.text \notin {"unhandled_rejection", "error"}
    /\ (answered /\ answer.body.success) => answer.body.token = mintedFor(answer.code)

\* a second /start for a confirmed code was turned away
C3_Witness ==
    /\ botReply.code \in Codes
    /\ confirmationsOf(botReply.code) # {}
    /\ botReply.text \in {"invalid_code", "welcome"}
    /\ botReply.to # confirmed[1].from

\* a status answer {success:false, status:'expired'}
saysExpired(a) == ~a.body.success /\ a.body.status = "expired"
newAnswer == answer'.n # answer.n

\* C4: once the expiry timer of code c has fired, no /start c signs a token
\* and no status request for c (one waiting since before the timer fired
\* included) answers success.
C4_NoResolveAfterExpiry ==
    [][\A c \in Codes :
          expiryFired(c) =>
             /\ confirmationsOf(c)' = confirmationsOf(c)
             /\ newAnswer => ~(answer'.code = c /\ answer'.body.success)]_vars

\* a /start for a code that expired unconfirmed was turned away, after a status
\* request for it had been left waiting across the expiry
C4_Witness ==
    /\ botReply.code \in DOMAIN issued
    /\ expiryFired(botReply.code)
    /\ confirmationsOf(botReply.code) = {}
    /\ botReply.text \in {"invalid_code", "welcome"}
    /\ answered /\ answer.code = botReply.code /\ answer.known /\ answer.fired

\* C5: a status request for an issued code that arrives after the code's 5
\* minutes have elapsed, with no confirmation of the code, answers
\* {success:false, status:'expired'}.
C5_ExpiredAfterTimeout ==
    (answered /\ answer.late /\ confirmationsOf(answer.code) = {}) => saysExpired(answer)

C5_Witness ==
    /\ answered /\ answer.late /\ answer.code \in DOMAIN issued
    /\ confirmationsOf(answer.code) = {}
    /\ saysExpired(answer) /\ answer.waited = 0

\* C6: a status request for a code that is not in the registry answers
\* {success:false, status:'expired'} in the same step, without waiting, and
\* leaves the registry, its timers and the waiting requests as they were.
C6_UnknownCodeExpiredAtOnce ==
    [][nPolls' # nPolls =>
         LET c == IF has(polls', nPolls') THEN polls'[nPolls'].code ELSE answer'.code
         IN  ~has(authRequests, c) =>
                /\ answer'.n = answer.n + 1
                /\ answer'.code = c
                /\ saysExpired(answer')
                /\ answer'.waited = 0
                /\ UNCHANGED <<authRequests, expiryTimers, polls>>]_vars

\* a never-issued code was asked about while another code was registered
C6_Witness ==
    /\ answered /\ answer.code = NeverIssued /\ ~answer.known
    /\ saysExpired(answer)
    /\ authRequests # EmptyMap

\* C7: a status request for a registered code never answers 'pending' before
\* its 30 s wait has elapsed.
C7_NoEarlyPending ==
    (answered /\ answer.known /\ answer.body.status = "pending") => answer.waited >= POLL_WAIT

\* C8: the step in which a status request answers 'pending' leaves the registry
\* entry and its expiry timer as they were, and a /start for a code that is in
\* the registry is accepted as a confirmation.
C8_PendingLeavesEntry ==
    [][/\ (newAnswer /\ answer'.body.status = "pending") =>
              UNCHANGED <<authRequests, expiryTimers>>
       /\ (botReply' # botReply /\ has(authRequests, botReply'.code)) =>
              /\ botReply'.text = "auth_ok"
              /\ Len(confirmed') = Len(confirmed) + 1
              /\ confirmed'[Len(confirmed')].code = botReply'.code]_vars

\* the only status request timed out with 'pending' after its 30 s, and a
\* /start for its code was accepted afterwards
C8_Witness ==
    /\ nPolls = 1
    /\ answered /\ answer.body.status = "pending" /\ answer.waited = POLL_WAIT
    /\ botReply.text = "auth_ok" /\ botReply.code = answer.code
    /\ Len(confirmed) = 1 /\ confirmed[1].waiters = 0

\* C9: every status request that was waiting on a code when it was confirmed
\* is settled by that confirmation.
C9_Broadcast ==
    \A p \in DOMAIN polls : polls[p].sawConfirm # NoToken => ~polls[p].waiting

\* C10: at most one status answer carries the token of a code, and a status
\* request that arrives after that answer is told 'expired'.
C10_DeliveredOnce ==
    /\ \A i, j \in DOMAIN delivered : delivered[i] = delivered[j] => i = j
    /\ (answered /\ answer.delivered) => saysExpired(answer)

C10_Witness ==
    /\ answered /\ answer.delivered /\ saysExpired(answer)
    /\ Len(delivered) = 1 /\ delivered[1] = answer.code

\* ------------------------------------------------------ claims on the ledger
\* C11: used_today <= daily_limit for every identity in every reachable state,
\* overlapping send-message requests of one user included.
C11_UsedWithinLimit ==
    \A u \in users : u.used_today <= u.daily_limit

\* a send-message request arrives in this step
sendArrives == nSends' = nSends + 1
\* a send-message response is sent in this step
newReply == reply'.n # reply.n
\* the row of the caller of the request that arrives in this step, as the
\* middleware found it (NoUser if it refused the request)
callerRow ==
    IF newReply THEN reply'.who
    ELSE IF has(sends', nSends') THEN sends'[nSends'].who
    ELSE NoUser
\* the users table once the lazy day reset has been applied to it
afterReset == resetDailyLimit(users, date(now))
\* the caller's row after the lazy day reset
callerAfterReset == getUser(afterReset, callerRow.telegram_id)
\* the step stores no turn and calls no AI
noTurnNoCall == UNCHANGED <<messages, aiCalls, sends>>

\* C12 as stated: a send-message request of a caller whose used_today, after
\* the lazy day reset, has reached daily_limit is answered 429, stores no turn,
\* calls no AI and changes no counter.
C12_AtLimitAnswered429 ==
    [][(sendArrives /\ callerRow # NoUser /\ callerAfterReset.used_today >= callerAfterReset.daily_limit) =>
          /\ newReply /\ reply'.status = 429
          /\ noTurnNoCall
          /\ users' = afterReset]_vars

\* C12, amended: such a request is rejected in the same step, stores no turn,
\* calls no AI and changes no counter; the answer is 429, except that part_000
\* validates the request first and answers 400 (empty content) or 404 (not the
\* caller's chat) before it looks at the ledger.
C12_AtLimitRejected ==
    [][(sendArrives /\ callerRow # NoUser /\ callerAfterReset.used_today >= callerAfterReset.daily_limit) =>
          /\ newReply
          /\ noTurnNoCall
          /\ \/ reply'.status = 429 /\ users' = afterReset
             \/ variant = "part" /\ reply'.status \in {400, 404} /\ users' = users]_vars

\* a request of a caller at the limit was answered 429
C12_Witness ==
    /\ reply.status = 429
    /\ reply.user # NoUser /\ reply.user.used_today = reply.user.daily_limit
    /\ \E u \in users : u.id = reply.user.id /\ u.used_today = u.daily_limit

\* the turns request r stored with role `role`
turnsOf(tbl, r, role) == {i \in DOMAIN tbl : tbl[i].req = r /\ tbl[i].role = role}

\* C13: a send-message request whose AI call failed leaves the caller's
\* used_today as it was.
C13_FailureChargesNothing ==
    [][(newReply /\ reply'.outcome = "error") =>
          \A u \in users : u.id = reply'.who.id =>
             \E v \in users' : v.id = u.id /\ v.used_today = u.used_today]_vars

\* C14: when the AI call of a send-message request failed, the request's user
\* turn is stored, no assistant turn is stored for it, and the response carries
\* no assistant message.
C14_FailureStoresNoReply ==
    [][(newReply /\ reply'.outcome = "error") =>
          /\ turnsOf(messages', reply'.req, "user") # {}
          /\ turnsOf(messages', reply'.req, "assistant") = {}
          /\ ~reply'.assistant]_vars

\* the row of users' with the id of row u (the program deletes no row; the
\* table is empty after a restart on an empty database)
rowAfter(u) == CHOOSE v \in users' : v.id = u.id

\* C15: the usage counter loses no update: every send-message request that
\* completes successfully raises the caller's used_today by exactly one over
\* the value the table holds at that time, whatever other requests of the
\* caller are suspended, and nothing but the day reset changes the counter
\* otherwise; so N successful requests on one day add exactly N.
C15_NoLostUpdate ==
    [][users' # {} =>
          \A u \in users :
             /\ \E v \in users' : v.id = u.id
             /\ IF newReply /\ reply'.status = 200 /\ reply'.who.id = u.id
                THEN rowAfter(u).used_today = u.used_today + 1
                ELSE \/ rowAfter(u).used_today = u.used_today
                     \/ /\ u.last_reset # NullDate /\ u.last_reset < date(now)
                        /\ rowAfter(u).used_today = 0
                        /\ rowAfter(u).last_reset = date(now)]_vars

\* two requests of one user overlapped: the one that answered last had read
\* used_today = 0, and the table now counts both
C15_Witness ==
    /\ reply.status = 200 /\ reply.user.used_today = 0
    /\ \E u \in users :
          /\ u.id = reply.user.id /\ u.last_reset = reply.user.last_reset
          /\ u.used_today = 2 /\ u.total_messages \in {2, 4}

\* the row the limit check of the request arriving in this step read, NoUser if
\* the request did not get that far
rowChecked ==
    IF newReply THEN reply'.user
    ELSE IF has(sends', nSends') THEN sends'[nSends'].user
    ELSE NoUser

\* C16: when the caller's last_reset is an earlier date than today and their
\* used_today equals daily_limit, a send-message request is not answered 429:
\* the limit check, when the request gets to it, reads the row after the reset
\* has set used_today to 0 and last_reset to today.
C16_RolloverBeforeCheck ==
    [][(/\ sendArrives /\ callerRow # NoUser
        /\ callerRow.last_reset # NullDate /\ callerRow.last_reset < date(now)
        /\ callerRow.used_today = callerRow.daily_limit) =>
          /\ newReply => reply'.status # 429
          /\ rowChecked # NoUser =>
                /\ rowChecked.used_today = 0
                /\ rowChecked.last_reset = date(now)
                /\ users' = afterReset
                /\ rowChecked \in users']_vars

\* a request of a caller who was at the limit on an earlier day is suspended
\* at the AI call: it was accepted
C16_Witness ==
    \E r \in DOMAIN sends :
       /\ sends[r].who.used_today = sends[r].who.daily_limit
       /\ sends[r].who.last_reset < sends[r].user.last_reset
       /\ sends[r].user.used_today = 0

\* C17: with daily_limit = L, the limit check rejects (429) exactly the
\* requests that read used_today >= L, so one at L-1 passes and one at L does
\* not; a request that completes successfully charges used_today by exactly 1,
\* and one that was accepted at used_today = L-1 leaves used_today = L when it
\* has completed.
C17_BoundaryAndWeight ==
    [][/\ (sendArrives /\ rowChecked # NoUser) =>
             ((newReply /\ reply'.status = 429) <=> rowChecked.used_today >= rowChecked.daily_limit)
       /\ (newReply /\ reply'.status = 200) =>
             \A u \in users : u.id = reply'.who.id =>
                /\ rowAfter(u).used_today = u.used_today + 1
                /\ reply'.user.used_today = reply'.user.daily_limit - 1 =>
                      rowAfter(u).used_today = u.daily_limit]_vars

\* the Authorization header of the request that arrives in this step
credPresented ==
    IF newReply THEN reply'.cred
    ELSE IF has(sends', nSends') THEN sends'[nSends'].cred
    ELSE NoToken
\* the reasons to refuse a token, at the time of the request
tokenMissing(cred)   == cred = NoToken
badSignature(cred)   == cred # NoToken /\ cred.sig # ServerKey
pastExpiry(cred)     == cred # NoToken /\ now >= cred.exp
identityGone(cred)   == cred # NoToken /\ getUser(users, cred.telegramId) = NoUser
identityBlocked(cred) ==
    /\ cred # NoToken
    /\ getUser(users, cred.telegramId) # NoUser
    /\ getUser(users, cred.telegramId).is_blocked
\* the step runs none of the protected handler
handlerNotRun == UNCHANGED <<users, chats, messages, sends, aiCalls>>

\* C18: a request whose token is missing, is not signed by the server, is past
\* its expiry, names an identity that is not in the table, or names a blocked
\* identity is answered 401 and the protected handler is not run.
C18_MiddlewareRejects ==
    [][(/\ sendArrives
        /\ \/ tokenMissing(credPresented) \/ badSignature(credPresented)
           \/ pastExpiry(credPresented) \/ identityGone(credPresented)
           \/ identityBlocked(credPresented)) =>
          /\ newReply /\ reply'.status = 401
          /\ handlerNotRun]_vars

\* the token of a blocked identity, signed by the server and not expired, was
\* answered 401
C18_Witness ==
    /\ reply.status = 401
    /\ reply.cred \in tokens /\ now < reply.cred.exp
    /\ getUser(users, reply.cred.telegramId) # NoUser
    /\ getUser(users, reply.cred.telegramId).is_blocked

\* C19 as stated: a token a confirmation signed for U is accepted as U whenever
\* U is in the table and fewer than 7 days have passed since it was signed, and
\* is rejected once 7 days have passed.
C19_RoundTripWhileExists ==
    \A t \in tokens :
       /\ (getUser(users, t.telegramId) # NoUser /\ now < t.iat + JWT_TTL) =>
             /\ authMiddleware(t, users, now) # NoUser
             /\ authMiddleware(t, users, now).telegram_id = t.telegramId
       /\ now >= t.iat + JWT_TTL => authMiddleware(t, users, now) = NoUser

\* C19, amended: the same, for a U that is in the table and is not blocked; the
\* middleware of index.js refuses the token of a blocked U at any age.
C19_RoundTrip ==
    \A t \in tokens :
       /\ (/\ getUser(users, t.telegramId) # NoUser
           /\ ~getUser(users, t.telegramId).is_blocked
           /\ now < t.iat + JWT_TTL) =>
             /\ authMiddleware(t, users, now) = getUser(users, t.telegramId)
             /\ authMiddleware(t, users, now).telegram_id = t.telegramId
       /\ now >= t.iat + JWT_TTL => authMiddleware(t, users, now) = NoUser

\* a token that had been accepted (its request stored a turn) was presented
\* again after 7 days and answered 401, its identity still in the table
C19_Witness ==
    /\ reply.status = 401
    /\ reply.cred \in tokens /\ now >= reply.cred.iat + JWT_TTL
    /\ getUser(users, reply.cred.telegramId) # NoUser
    /\ ~getUser(users, reply.cred.telegramId).is_blocked
    /\ messages # <<>>

\* what the middleware needs to let a request through, at the time of the step
tokenValid(cred) ==
    /\ cred # NoToken /\ cred.sig = ServerKey /\ now < cred.exp
    /\ getUser(users, cred.telegramId) # NoUser

\* C20: a send-message step that resets the day, reads a row for the limit
\* check, stores a turn, calls the AI or changes a counter belongs to a request
\* with a valid token; a request without one does none of these.
C20_VerificationFirst ==
    [][(/\ sendArrives
        /\ \/ users' # users \/ messages' # messages \/ aiCalls' # aiCalls
           \/ sends' # sends \/ rowChecked # NoUser) =>
          tokenValid(credPresented)]_vars

\* a forged token was turned away on a day on which the reset would have
\* cleared the counter of the identity it names
C20_Witness ==
    /\ reply.status = 401 /\ reply.cred # NoToken /\ reply.cred.sig = OtherKey
    /\ \E u \in users :
          /\ u.telegram_id = reply.cred.telegramId
          /\ u.used_today > 0
          /\ u.last_reset # NullDate /\ u.last_reset < date(now)

\* ------------------------------------------------- claims on the identities
\* C21: an accepted "/start c" from Telegram user T inserts a users row for T
\* when T has none and leaves the table as it is otherwise; after any sequence
\* of /start messages no two rows share a Telegram id, and the token signed for
\* c names T's row.
C21_OneIdentityPerTelegramId ==
    [][/\ \A u, v \in users' : u.telegram_id = v.telegram_id => u = v
       /\ Len(confirmed') > Len(confirmed) =>
             LET k == confirmed'[Len(confirmed')]
             IN  /\ getUser(users, k.from) # NoUser => users' = users
                 /\ getUser(users, k.from) = NoUser =>
                       \E row \in users' :
                          /\ row \notin users /\ row.telegram_id = k.from
                          /\ users' = users \cup {row}
                 /\ getUser(users', k.from) # NoUser
                 /\ k.token.userId = getUser(users', k.from).id
                 /\ k.token.telegramId = k.from]_vars

\* the confirmation of a user who had a row already (the first of two rows)
\* signed a token that names that row
C21_Witness ==
    /\ Cardinality(users) = 2
    /\ Len(confirmed) = 1 /\ confirmed[1].token.userId = 1
    /\ botReply.text = "auth_ok" /\ botReply.to = confirmed[1].from

\* ---------------------------------------------- more claims on the handshake
\* C22: every entry of the registry belongs to a code handed out at most 5
\* minutes ago, and the timer that removes it at the end of those 5 minutes is
\* set: an entry is gone no later than 5 minutes after its init, confirmed or
\* not, polled or not.
C22_EntriesLiveFiveMinutes ==
    \A c \in DOMAIN authRequests :
       /\ c \in DOMAIN issued
       /\ authRequests[c].timestamp = issued[c]
       /\ now <= issued[c] + AUTH_TTL
       /\ \E t \in expiryTimers : t.code = c /\ t.due = issued[c] + AUTH_TTL

\* a code that was never polled and never confirmed left the registry when its
\* 5 minutes ended
C22_Witness ==
    /\ 1 \in DOMAIN issued /\ ~has(authRequests, 1)
    /\ nPolls = 0 /\ confirmed = <<>>
    /\ now = issued[1] + AUTH_TTL

\* C23: once a status response for code c has said 'expired' or has carried the
\* token, no later status response for c says 'pending' or carries a token.
C23_TerminalStates ==
    [][(/\ newAnswer
        /\ \/ deliveredFor(answer'.code)
           \/ /\ answered /\ answer.code = answer'.code
              /\ saysExpired(answer) \/ answer.body.success) =>
          ~(answer'.body.success \/ answer'.body.status = "pending")]_vars

\* the status requests waiting on code c
waitersOn(c) == {p \in DOMAIN polls : polls[p].code = c /\ polls[p].waiting}
\* the one of them that arrived last
lastOf(ps) == CHOOSE p \in ps : \A q \in ps : q <= p

\* C24 (part_000): when "/start c" is accepted while two or more status
\* requests wait on c, the one that arrived last answers with the token in that
\* step and the others stay waiting; each of those answers 'pending' at the end
\* of its own 30 s; and a request for c that arrives after the confirmation is
\* told 'expired' at once.
C24_LastPollerWins ==
    [][variant = "part" =>
         /\ Len(confirmed') > Len(confirmed) =>
               LET k == confirmed'[Len(confirmed')]
                   w == waitersOn(k.code)
               IN  Cardinality(w) >= 2 =>
                      /\ newAnswer /\ answer'.code = k.code
                      /\ answer'.body.success /\ answer'.body.token = k.token
                      /\ Len(delivered') = Len(delivered) + 1
                      /\ ~polls'[lastOf(w)].waiting
                      /\ \A p \in w \ {lastOf(w)} :
                            polls'[p].waiting /\ polls'[p].sawConfirm = k.token
         /\ (newAnswer /\ answer'.sawConfirm # NoToken /\ Len(confirmed') = Len(confirmed)) =>
               /\ ~answer'.body.success /\ answer'.body.status = "pending"
               /\ answer'.waited = POLL_WAIT
         /\ (newAnswer /\ answer'.minted # NoToken) =>
               saysExpired(answer') /\ answer'.waited = 0]_vars

\* two requests were waiting when the code was confirmed; all three requests
\* have been answered (the token, 'pending', and now 'expired' to the retry)
C24_Witness ==
    /\ variant = "part"
    /\ Len(confirmed) = 1 /\ confirmed[1].waiters = 2
    /\ Len(delivered) = 1
    /\ nPolls = 3 /\ answer.n = 3 /\ DOMAIN polls = {}
    /\ saysExpired(answer) /\ answer.minted = confirmed[1].token

\* status request p is suspended in its await
suspended(p) == has(polls, p) /\ polls[p].waiting
\* the last instant of the clock
Horizon == MaxTicks * POLL_WAIT

\* C25: every status request is answered exactly once (each request received
\* is either answered or still suspended, never both and never twice), no
\* answer comes later than 30 s after its request, no request is suspended
\* past the end of its 30 s, and a suspended request whose 30 s end within the
\* horizon of the clock is answered.
C25_OneResponseWithin30s ==
    /\ [](/\ answer.n + Cardinality({p \in DOMAIN polls : polls[p].waiting}) = nPolls
          /\ answer.waited >= 0 /\ answer.waited <= POLL_WAIT
          /\ \A p \in DOMAIN polls :
                polls[p].waiting => now <= polls[p].timerDue)
    /\ \A p \in 1 .. MaxPolls :
          (suspended(p) /\ polls[p].timerDue <= Horizon) ~> ~suspended(p)

\* a request that was suspended when the expiry timer removed its entry was
\* answered at the end of its 30 s, while a later request was still suspended
C25_Witness ==
    /\ answered /\ answer.known /\ answer.fired
    /\ answer.waited = POLL_WAIT
    /\ \E p \in DOMAIN polls : polls[p].waiting

\* ---------------------------------------------------- claims on the AI service
\* C26 (index.js): a call of AIService.generate makes at most two provider
\* attempts.  The first is with the requested model and that model's handler
\* (the handler of 'gemini-pro' when the name is not a listed one); a second
\* is made exactly when the first failed and the requested model is not
\* 'gemini-pro', and it is with 'gemini-pro'; when the execution for
\* 'gemini-pro' fails the call throws, and it returns exactly when an attempt
\* succeeded.
C26_AtMostTwoAttempts ==
    \A r \in DOMAIN runs :
       LET a == runs[r].attempts
           n == Len(a)
       IN  /\ n \in {1, 2}
           /\ a[1].model = runs[r].model /\ a[1].handler = handlerOf(runs[r].model)
           /\ n = 2 <=> (a[1].outcome = "fail" /\ runs[r].model # "gemini-pro")
           /\ n = 2 => a[2].model = "gemini-pro" /\ a[2].handler = "gemini-pro"
           /\ runs[r].result = "thrown" <=> (a[n].model = "gemini-pro" /\ a[n].outcome = "fail")
           /\ runs[r].result = "returned" <=> a[n].outcome = "ok"
           /\ runs[r].result = "pending" <=> a[n].outcome = "pending"

\* a call for another model failed, fell back to 'gemini-pro', failed again
\* and threw
C26_Witness ==
    \E r \in DOMAIN runs :
       /\ runs[r].model = "cohere-command" /\ runs[r].result = "thrown"
       /\ Len(runs[r].attempts) = 2
       /\ runs[r].attempts[1].handler = "cohere-command"
       /\ runs[r].attempts[2].handler = "gemini-pro"

\* ---------------------------------------------- more claims on the ledger
\* the day a row's used_today was last counted from: the day of its last
\* reset, or, for a row that has never had one (NULL), the day it was created
\* or last charged
dayOfCount(row) == IF row.last_reset # NullDate THEN row.last_reset ELSE row.last_active

\* C27: a send-message request of a caller whose used_today reached
\* daily_limit on an earlier calendar day is not answered 429: the day reset at
\* the top of the handler sets the caller's used_today to 0 before the limit
\* check reads it, whatever last_reset the row was created with.
C27_ResetAppliesToEveryRow ==
    [][(/\ sendArrives /\ callerRow # NoUser
        /\ callerRow.used_today >= callerRow.daily_limit
        /\ dayOfCount(callerRow) < date(now)) =>
          /\ newReply => reply'.status # 429
          /\ rowChecked # NoUser => rowChecked.used_today = 0]_vars

\* ------------------------------------------------ claims on two handshakes
\* the last confirmation on record
lastConfirmed == confirmed[Len(confirmed)]
\* a /start was accepted as a confirmation in this step
newConfirmation == Len(confirmed') = Len(confirmed) + 1

\* C28: a status response carries a token only in answer to a request for a
\* code c for which "/start c" has been accepted, and a "/start c" is accepted
\* only while c is in the registry; the token is the one that confirmation
\* signed, for the user who sent it.
C28_TokenOnlyAfterConfirmation ==
    [][/\ newConfirmation => has(authRequests, lastConfirmed'.code)
       /\ (newAnswer /\ answer'.body.success) =>
             \E i \in DOMAIN confirmed' :
                /\ confirmed'[i].code = answer'.code
                /\ confirmed'[i].token = answer'.body.token
                /\ confirmed'[i].from = answer'.body.user.telegram_id
                /\ answer'.body.token.telegramId = confirmed'[i].from]_vars

\* the request for code 2 was answered with the token while code 1, never
\* confirmed, was in the registry with a request waiting on it
C28_Witness ==
    /\ answered /\ answer.code = 2 /\ answer.body.success
    /\ confirmationsOf(1) = {} /\ has(authRequests, 1)
    /\ \E p \in DOMAIN polls : polls[p].code = 1 /\ polls[p].waiting

\* the registry entry of code c, if any
NoEntry == [resolve |-> NoopResolver, timestamp |-> 0 - 1]
entryOf(map, c) == IF has(map, c) THEN map[c] ELSE NoEntry
\* the expiry timers of code c
timersOf(timers, c) == {t \in timers : t.code = c}
\* the open status requests for code c
pollsOf(ps, c) == {<<p, ps[p]>> : p \in {q \in DOMAIN ps : ps[q].code = c}}
\* the step changes something that belongs to the handshake of code c: its
\* entry, its expiry timer, a request for it, a response or a bot reply about
\* it, a confirmation of it
touched(c) ==
    \/ entryOf(authRequests', c) # entryOf(authRequests, c)
    \/ timersOf(expiryTimers', c) # timersOf(expiryTimers, c)
    \/ pollsOf(polls', c) # pollsOf(polls, c)
    \/ newAnswer /\ answer'.code = c
    \/ botReply' # botReply /\ botReply'.code = c
    \/ newConfirmation /\ lastConfirmed'.code = c

\* C29: no step changes anything of two handshakes: a confirmation, status
\* request, 30 s timeout or expiry timer of one code leaves the entry, the
\* timer and the requests of the other code as they were and sends no response
\* about it; a token is delivered only in the step that confirms the code the
\* answered request asked about, and it is that confirmation's token; and the
\* expiry timer of a confirmed code changes nothing but itself.
C29_HandshakesIsolated ==
    [][/\ \A c1, c2 \in DOMAIN issued : c1 # c2 => ~(touched(c1) /\ touched(c2))
       /\ (newAnswer /\ answer'.body.success) =>
             /\ newConfirmation /\ lastConfirmed'.code = answer'.code
             /\ answer'.body.token = lastConfirmed'.token
             /\ answer'.body.user.telegram_id = lastConfirmed'.from
       /\ \A c \in DOMAIN issued :
             (confirmationsOf(c) # {} /\ timersOf(expiryTimers', c) # timersOf(expiryTimers, c)) =>
                UNCHANGED <<authRequests, polls, answer, delivered, users, confirmed>>]_vars

\* code 1 was confirmed and its expiry timer has fired since; code 2 is still
\* in the registry, its timer set, and a request is waiting on it
C29_Witness ==
    /\ confirmationsOf(1) # {} /\ expiryFired(1)
    /\ has(authRequests, 2) /\ \E t \in expiryTimers : t.code = 2
    /\ \E p \in DOMAIN polls : polls[p].code = 2 /\ polls[p].waiting

\* ------------------------------------------------- claims on chat ownership
\* a list-messages response is sent in this step
newListing == listing'.n # listing.n
\* chat id `chat` names no chat, or a chat of another user than `user`
notOwnChat(chat, user) == ~has(chats, chat) \/ chats[chat].user_id # user.id
\* the step is the send-message handler's first, for this header and chat id
sendFor(cred, chat) ==
    \/ sendMessage_index(cred, chat)
    \/ \E content \in Contents : sendMessage_part(cred, chat, content)
\* the step writes nothing to the tables and calls no AI
nothingWritten == UNCHANGED <<users, chats, messages, sends, aiCalls>>

====
